---- MODULE Spec2Model ----
(***************************************************************************)
(* FastAPI <-> ASP.NET bridge: the two endpoints that forward an upload    *)
(* to the upstream CAD service and de-multiplex its (multipart) answer:    *)
(*   POST /fetch-model  main.py  fetch_model + forward_and_parse           *)
(*   POST /api/model    main.py  receive_attributes +                      *)
(*                      client/solidworks.py fetch_solidworks_info_and_file*)
(*                                                                         *)
(* Strings are TLA+ strings, handled character by character with Len,      *)
(* SubSeq, Head, Tail and \o.  Python's None and "" are both written ""    *)
(* (the code only ever tests these values for truthiness or compares them  *)
(* with a non-empty literal).  A path is the sequence of its components    *)
(* after the operating system has resolved "." and ".." (POSIX rules).     *)
(***************************************************************************)
EXTENDS Naturals, Sequences, FiniteSets, TLC

\* req[r]     the handler of request r: its locals, its position (pc), the
\*            upstream answer it got (resp), the answer it gave (status_code,
\*            detail, body), and taken, the log of the branch each part of the
\*            answer took ("Info" or "Artifact") and the path it wrote
\* fs         the files on disk: path -> bytes
\* dirs       the directories on disk
\* written[r] the paths written while handling request r
\*
\* main.py uses requests, requests_toolbelt's decoder, pathlib.Path, uuid and
\* typing.Optional without importing them; the model reads each name as the
\* library it names.
VARIABLES req, fs, dirs, written

vars == <<req, fs, dirs, written>>

----------------------------------------------------------------------------
(* Bounds of the model *)

\* longest multipart answer the upstream gives, in parts
MaxParts == 2
\* number of requests in flight together in SpecConc
NumReqs == 2

----------------------------------------------------------------------------
(* str methods used by the code *)

None == ""

UpperChars == "ABCDEFGHIJKLMNOPQRSTUVWXYZ"
LowerChars == "abcdefghijklmnopqrstuvwxyz"

LowerChar(c) ==
    IF \E k \in 1..Len(UpperChars) : SubSeq(UpperChars, k, k) = c
    THEN LET k == CHOOSE k \in 1..Len(UpperChars) : SubSeq(UpperChars, k, k) = c
         IN  SubSeq(LowerChars, k, k)
    ELSE c

RECURSIVE Lower(_)
\* str.lower()
Lower(s) == IF s = "" THEN "" ELSE LowerChar(Head(s)) \o Lower(Tail(s))

\* str.startswith(p)
StartsWith(s, p) == Len(s) >= Len(p) /\ SubSeq(s, 1, Len(p)) = p

\* str.endswith(p)
EndsWith(s, p) == Len(s) >= Len(p) /\ SubSeq(s, Len(s) - Len(p) + 1, Len(s)) = p

RECURSIVE Replace(_, _, _)
\* str.replace(old, new) for a one-character old
Replace(s, old, new) ==
    IF s = "" THEN ""
    ELSE (IF Head(s) = old THEN new ELSE Head(s)) \o Replace(Tail(s), old, new)

\* some character of s is c
Contains(s, c) == \E k \in 1..Len(s) : SubSeq(s, k, k) = c

RECURSIVE SplitAcc(_, _, _)
SplitAcc(s, sep, cur) ==
    IF s = "" THEN <<cur>>
    ELSE IF Head(s) = sep THEN <<cur>> \o SplitAcc(Tail(s), sep, "")
    ELSE SplitAcc(Tail(s), sep, cur \o Head(s))

\* str.split(sep) for a one-character sep
Split(s, sep) == SplitAcc(s, sep, "")

Digits == "0123456789"
\* str(i) / f"{i}" of a natural number
RECURSIVE Str(_)
Str(i) == IF i < 10 THEN SubSeq(Digits, i + 1, i + 1)
          ELSE Str(i \div 10) \o SubSeq(Digits, (i % 10) + 1, (i % 10) + 1)

----------------------------------------------------------------------------
(* Paths and the file system *)

RECURSIVE Normalize(_, _)
\* what the operating system makes of the components comps below path base:
\* "" and "." are skipped, ".." steps to the parent
Normalize(base, comps) ==
    IF comps = <<>> THEN base
    ELSE LET c == Head(comps)
         IN  IF c = "" \/ c = "." THEN Normalize(base, Tail(comps))
             ELSE IF c = ".."
                  THEN Normalize(IF base = <<>> THEN <<>>
                                 ELSE SubSeq(base, 1, Len(base) - 1), Tail(comps))
                  ELSE Normalize(Append(base, c), Tail(comps))

\* pathlib's  dir / name  and os.path.join(dir, name), as the OS then resolves
\* it: an absolute name replaces dir
Join(dir, name) ==
    IF StartsWith(name, "/") THEN Normalize(<<>>, Split(name, "/"))
    ELSE Normalize(dir, Split(name, "/"))

\* os.path.basename / Path.name of a resolved path
Basename(path) == IF path = <<>> THEN "" ELSE path[Len(path)]

Parent(path) == IF path = <<>> THEN <<>> ELSE SubSeq(path, 1, Len(path) - 1)

\* path p lies inside directory d
Inside(p, d) == Len(p) > Len(d) /\ SubSeq(p, 1, Len(d)) = d

\* the prefixes of a path: mkdir(parents=True) / os.makedirs create them all
Ancestors(path) == {SubSeq(path, 1, k) : k \in 0..Len(path)}

\* open(path, "wb") succeeds: the parent is a directory, the path is not one
CanWrite(d, path) == path # <<>> /\ Parent(path) \in d /\ path \notin d

\* a write that keeps a file that is already there
WriteFileKeepFirst(f, path, data) ==
    [p \in DOMAIN f \cup {path} |-> IF p \in DOMAIN f THEN f[p] ELSE data]

\* the file system after write_bytes / write_text / f.write of data to path
WriteFile(f, path, data) ==
    [p \in DOMAIN f \cup {path} |-> IF p = path THEN data ELSE f[p]]

\* the directory that holds main.py
BASE_DIR == <<"app">>
\* main.py: BASE_DIR / "tmp"
TMP_ROOT == Append(BASE_DIR, "tmp")
\* client/solidworks.py: os.path.join(os.path.dirname(__file__), "tmp")
project_tmp_dir == <<"app", "client", "tmp">>
\* uuid.uuid4().hex: a token no other request has (collisions are left out)
ReqId(r) == "req" \o Str(r)

----------------------------------------------------------------------------
(* Bytes, UTF-8 and JSON.  A payload is a string of bytes; the character   *)
(* "#" stands for the byte 0xAB, which no UTF-8 text contains.             *)

\* bytes.decode("utf-8") succeeds
Utf8Ok(b) == ~Contains(b, "#")

\* the JSON texts the model's upstream sends, and their pretty-printed forms
T_volume == "{\"volume\": 12.5}"
T_volume_indent2 == "{\n  \"volume\": 12.5\n}"
T_status == "{\"status\":\"ok\"}"
T_status_indent2 == "{\n  \"status\": \"ok\"\n}"
\* a JSON text cut short: json.loads raises on it
T_truncated == "{\"volume\": "

\* the Python values of those texts (a number is kept by its literal)
V_volume == [volume |-> [number |-> "12.5"]]
V_status == [status |-> [string |-> "ok"]]
\* Python's None, as a value of the same kind
Null == [none |-> TRUE]
\* Python's {}
EmptyDict == [dict |-> <<>>]

\* json.loads(text) raises nothing
JsonParses(text) ==
    text \in {T_volume, T_volume_indent2, T_status, T_status_indent2}

\* json.loads(text)
JsonLoads(text) ==
    CASE text \in {T_volume, T_volume_indent2} -> V_volume
      [] text \in {T_status, T_status_indent2} -> V_status
      [] OTHER -> Null

\* json.dumps(value, indent=2)
JsonDumpsIndent2(value) ==
    CASE value = V_volume -> T_volume_indent2
      [] value = V_status -> T_status_indent2
      [] OTHER -> "null"

\* json.loads(part.content.decode("utf-8")) raises nothing
InfoDecodes(b) == Utf8Ok(b) /\ JsonParses(b)

----------------------------------------------------------------------------
(* Header parsing *)

RECURSIVE LStrip(_, _)
LStrip(s, chars) ==
    IF s # "" /\ Contains(chars, Head(s)) THEN LStrip(Tail(s), chars) ELSE s

RECURSIVE RStrip(_, _)
RStrip(s, chars) ==
    IF s # "" /\ Contains(chars, SubSeq(s, Len(s), Len(s)))
    THEN RStrip(SubSeq(s, 1, Len(s) - 1), chars) ELSE s

\* str.strip(chars); str.strip() strips white space
Strip(s, chars) == RStrip(LStrip(s, chars), chars)
White == " \t\r\n"

\* index of the first "=" of kv, 0 when there is none
FirstEq(kv) ==
    IF Contains(kv, "=")
    THEN CHOOSE k \in 1..Len(kv) :
            /\ SubSeq(kv, k, k) = "="
            /\ \A j \in 1..(k - 1) : SubSeq(kv, j, j) # "="
    ELSE 0

\* kv.strip().split("=", 1): the key, lowercased as the comparison does, and
\* the value v.strip().strip('"')
ParamKey(kv) == Lower(Strip(SubSeq(Strip(kv, White), 1, FirstEq(Strip(kv, White)) - 1), White))
ParamValue(kv) ==
    LET t == Strip(kv, White)
    IN  Strip(Strip(SubSeq(t, FirstEq(t) + 1, Len(t)), White), "\"")

RECURSIVE LastParam(_, _, _)
\* main.py's loop over disposition.split(";"): the last value given for key
LastParam(kvs, key, found) ==
    IF kvs = <<>> THEN found
    ELSE LET kv == Head(kvs)
         IN  IF Contains(kv, "=") /\ ParamKey(kv) = key
             THEN LastParam(Tail(kvs), key, ParamValue(kv))
             ELSE LastParam(Tail(kvs), key, found)

\* filename / name as forward_and_parse extracts them from Content-Disposition
DispositionParam(disposition, key) == LastParam(Split(disposition, ";"), key, None)

RECURSIVE FirstParam(_, _)
\* the email package's parameter lookup: the first value given for key, the
\* backslashes of its quoted pairs dropped
FirstParam(kvs, key) ==
    IF kvs = <<>> THEN None
    ELSE LET kv == Head(kvs)
         IN  IF Contains(kv, "=") /\ ParamKey(kv) = key
             THEN Replace(ParamValue(kv), "\\", "")
             ELSE FirstParam(Tail(kvs), key)

\* email.message.Message.get_filename(): the filename parameter of the
\* Content-Disposition header (the first one given)
GetFilename(part) == FirstParam(Tail(Split(part.disposition, ";")), "filename")

\* email.message.Message.get_content_type(): the type/subtype, lowercased,
\* without parameters; text/plain when the header is absent or has no "/"
GetContentType(part) ==
    LET t == Lower(Strip(Head(Split(part.ct, ";")), White))
    IN  IF part.ct = None \/ ~Contains(t, "/") THEN "text/plain" ELSE t

\* part.headers.get(b"Content-Type", b"application/octet-stream")
HeaderContentType(part) ==
    IF part.ct = None THEN "application/octet-stream" ELSE part.ct

----------------------------------------------------------------------------
(* What the upstream service may answer *)

Part(ct, disposition, content) ==
    [ct |-> ct, disposition |-> disposition, content |-> content]

OctetStream == "application/octet-stream"

\* the JSON part named info and the exported file of the usual answer
P_info == Part("application/json", "form-data; name=\"info\"", T_volume)
P_stl == Part(OctetStream, "attachment; name=\"file\"; filename=\"part.stl\"", "##########")
\* two different files under one name
P_result1 == Part(OctetStream, "attachment; filename=\"result.bin\"", "###")
P_result2 == Part(OctetStream, "attachment; filename=\"result.bin\"", "#")
\* a JSON part whose text is cut short
P_badinfo == Part("application/json", "form-data; name=\"info\"", T_truncated)
\* file names with path separators
P_traversal == Part(OctetStream, "attachment; filename=\"../evil.bin\"", "##")
P_backslash == Part(OctetStream, "attachment; filename=\"a\\b.bin\"", "##")
P_dotdot == Part(OctetStream, "attachment; filename=\"..\"", "##")
\* a binary part whose disposition name is info.json
P_named_infojson == Part(OctetStream, "form-data; name=\"info.json\"", "####")
\* JSON-like parts that only one of the three rules catches
P_jsonseq == Part("application/json-seq", "", T_status)
P_charset == Part("application/json; charset=utf-8", "", T_status)
P_nameinfo == Part(OctetStream, "form-data; name=\"info\"", T_status)
P_upperjson == Part(None, "attachment; FileName=\"META.JSON\"", T_status)
\* a part without any header
P_bare == Part(None, "", "#")

AllParts ==
    {P_info, P_stl, P_result1, P_result2, P_badinfo, P_traversal, P_backslash,
     P_dotdot, P_named_infojson, P_jsonseq, P_charset, P_nameinfo, P_upperjson,
     P_bare}

\* the parts two concurrent requests draw from
ConcParts == {P_info, P_result1, P_bare}

RECURSIVE SeqsUpTo(_, _)
\* the sequences over S of length 0..n
SeqsUpTo(S, n) ==
    IF n = 0 THEN {<<>>}
    ELSE LET shorter == SeqsUpTo(S, n - 1)
         IN  shorter \cup {Append(q, x) : q \in {t \in shorter : Len(t) = n - 1}, x \in S}

TransportFailure == [kind |-> "transport_error"]
\* no call to the upstream has been made
NoResponse == [kind |-> "none"]

Response(status, content_type, text, parts) ==
    [kind |-> "response", status |-> status, content_type |-> content_type,
     text |-> text, parts |-> parts]

\* final statuses of the upstream: success, a redirect status that is not
\* followed (no Location), a server error
MultipartMixed == "multipart/mixed; boundary=X"

Outcomes(partset) ==
    {TransportFailure,
     Response(500, "text/plain", "bad params", <<>>),
     Response(404, "text/plain", "no such model", <<>>),
     Response(300, "text/plain", "choose", <<>>),
     Response(200, "application/json", T_status, <<>>),
     Response(200, "application/octet-stream", "##########", <<>>)}
    \cup {Response(200, MultipartMixed, "", ps) : ps \in SeqsUpTo(partset, MaxParts) \ {<<>>}}

\* file names the inbound upload may carry
UploadNames == {"model.sldprt", "../shared.stl"}
ConcUploadNames == {"model.sldprt"}
UploadBytes == "solid"

----------------------------------------------------------------------------
(* State *)

Requests == 1..NumReqs

\* a request nobody has sent yet
Idle ==
    [endpoint |-> "", pc |-> "idle", upload_name |-> "", dir |-> <<>>,
     tmp_name |-> <<>>, resp |-> NoResponse, parts |-> <<>>, i |-> 1,
     parts_meta |-> <<>>, info |-> Null, saved_file_path |-> <<>>,
     taken |-> <<>>, status_code |-> 0, detail |-> <<>>, body |-> [none |-> TRUE]]

Init ==
    /\ req = [r \in Requests |-> Idle]
    /\ fs = <<>>
    /\ dirs = {<<>>, <<"app">>, <<"app", "client">>, <<"sys_tmp">>}
    /\ written = [r \in Requests |-> {}]

\* the file system without path (os.unlink)
Unlink(f, path) == [p \in DOMAIN f \ {path} |-> f[p]]

\* raise HTTPException(status_code, detail): the request is over
Raise(q, status_code, detail) ==
    [q EXCEPT !.pc = "done", !.status_code = status_code, !.detail = detail]

\* return JSONResponse(body)
Return(q, body) ==
    [q EXCEPT !.pc = "done", !.status_code = 200, !.body = body]

----------------------------------------------------------------------------
(* POST /fetch-model: fetch_model and forward_and_parse *)

\* one entry of parts_meta; size is out_path.stat().st_size after the write
ManifestEntry(name, filename, path, content_type, f) ==
    [name |-> name, filename |-> filename, path |-> path,
     content_type |-> content_type, size |-> Len(f[path])]

\* the "JSON info part detection" condition of forward_and_parse
IsInfoCandidate(ct, filename, name) ==
    \/ StartsWith(ct, "application/json")
    \/ (filename # None /\ EndsWith(Lower(filename), ".json"))
    \/ name = "info"

\* "ensure filename" and "sanitize filename basic"
StoredFilename(filename, name, i) ==
    LET ensured == IF filename = None
                   THEN (IF name # None THEN name ELSE "part_" \o Str(i))
                   ELSE filename
    IN  Replace(Replace(ensured, "/", "_"), "\\", "_")

\* fetch_model up to the await of the worker thread: the tmp root and the
\* request folder are created, the upload is saved under its own name
FetchModelAccept(r, upload_name) ==
    LET q == req[r]
        req_dir == Append(TMP_ROOT, ReqId(r))
        made == dirs \cup Ancestors(TMP_ROOT) \cup Ancestors(req_dir)
        upload_path == Join(req_dir, upload_name)
        q1 == [q EXCEPT !.endpoint = "/fetch-model", !.upload_name = upload_name,
                        !.dir = req_dir]
    IN  /\ q.pc = "idle"
        /\ dirs' = made
        /\ IF CanWrite(made, upload_path)
           THEN /\ fs' = WriteFile(fs, upload_path, UploadBytes)
                /\ written' = [written EXCEPT ![r] = @ \cup {upload_path}]
                /\ req' = [req EXCEPT ![r] = [q1 EXCEPT !.pc = "forwarding"]]
           ELSE \* write_bytes raises OSError: except Exception -> 500
                /\ req' = [req EXCEPT ![r] = Raise(q1, 500, <<"OSError">>)]
                /\ UNCHANGED <<fs, written>>

\* a fallback that parses the body as JSON and lists no file
NonMultipartResultParsed(q, out_path, f) ==
    [parts |-> <<>>, info |-> JsonLoads(q.resp.text)]

\* what forward_and_parse returns for an answer that is not multipart
NonMultipartResult(q, out_path, f) ==
    [parts |-> <<ManifestEntry(None, Basename(out_path), out_path,
                               q.resp.content_type, f)>>,
     info |-> Null]

\* the body fetch_model returns
FetchModelBody(q, result) ==
    [request_id |-> Basename(q.dir), tmp_dir |-> q.dir,
     parts |-> result.parts, info |-> result.info]

\* forward_and_parse from the POST to the upstream up to the multipart decoder
ForwardAndParseCall(r, outcome) ==
    LET q == [req[r] EXCEPT !.resp = outcome]
        out_path == Join(q.dir, IF q.upload_name # None THEN q.upload_name
                                ELSE "output.bin")
    IN  /\ q.pc = "forwarding"
        /\ q.endpoint = "/fetch-model"
        /\ UNCHANGED dirs
        /\ IF outcome.kind = "transport_error"
           THEN \* requests.post raises: except Exception -> 500
                /\ req' = [req EXCEPT ![r] = Raise(q, 500, <<"ConnectionError">>)]
                /\ UNCHANGED <<fs, written>>
           ELSE IF outcome.status >= 400
           THEN /\ req' = [req EXCEPT ![r] =
                     Raise(q, 502, <<"Upstream service returned ",
                                     Str(outcome.status), ": ", outcome.text>>)]
                /\ UNCHANGED <<fs, written>>
           ELSE IF ~StartsWith(outcome.content_type, "multipart/")
           THEN IF CanWrite(dirs, out_path)
                THEN /\ fs' = WriteFile(fs, out_path, outcome.text)
                     /\ written' = [written EXCEPT ![r] = @ \cup {out_path}]
                     /\ req' = [req EXCEPT ![r] =
                          Return(q, FetchModelBody(q, NonMultipartResult(q, out_path, fs')))]
                ELSE /\ req' = [req EXCEPT ![r] = Raise(q, 500, <<"OSError">>)]
                     /\ UNCHANGED <<fs, written>>
           ELSE /\ req' = [req EXCEPT ![r] =
                     [q EXCEPT !.pc = "parsing", !.parts = outcome.parts, !.i = 1,
                               !.parts_meta = <<>>, !.info = Null]]
                /\ UNCHANGED <<fs, written>>

\* one iteration of forward_and_parse's loop over mp.parts
ForwardAndParsePart(r) ==
    LET q == req[r]
        part == q.parts[q.i]
        ct == HeaderContentType(part)
        filename == DispositionParam(part.disposition, "filename")
        name == DispositionParam(part.disposition, "name")
        info_path == Join(q.dir, "info.json")
        stored == StoredFilename(filename, name, q.i)
        out_path == Join(q.dir, stored)
    IN  /\ q.pc = "parsing"
        /\ q.endpoint = "/fetch-model"
        /\ q.i <= Len(q.parts)
        /\ UNCHANGED dirs
        /\ IF IsInfoCandidate(ct, filename, name) /\ InfoDecodes(part.content)
           THEN \* info_path is writable: the request folder exists and nothing
                \* in it is a directory
                /\ fs' = WriteFile(fs, info_path,
                                   JsonDumpsIndent2(JsonLoads(part.content)))
                /\ written' = [written EXCEPT ![r] = @ \cup {info_path}]
                /\ req' = [req EXCEPT ![r] =
                     [q EXCEPT !.info = JsonLoads(part.content),
                               !.parts_meta = Append(@,
                                   ManifestEntry(name, "info.json", info_path,
                                                 "application/json", fs')),
                               !.taken = Append(@, [tag |-> "Info", path |-> info_path]),
                               !.i = @ + 1]]
           ELSE IF CanWrite(dirs, out_path)
                THEN /\ fs' = WriteFile(fs, out_path, part.content)
                     /\ written' = [written EXCEPT ![r] = @ \cup {out_path}]
                     /\ req' = [req EXCEPT ![r] =
                          [q EXCEPT !.parts_meta = Append(@,
                                        ManifestEntry(name, stored, out_path, ct, fs')),
                                    !.taken = Append(@, [tag |-> "Artifact", path |-> out_path]),
                                    !.i = @ + 1]]
                ELSE /\ req' = [req EXCEPT ![r] = Raise(q, 500, <<"OSError">>)]
                     /\ UNCHANGED <<fs, written>>

\* the loop is over: forward_and_parse returns and fetch_model answers
FetchModelReturn(r) ==
    LET q == req[r]
    IN  /\ q.pc = "parsing"
        /\ q.endpoint = "/fetch-model"
        /\ q.i > Len(q.parts)
        /\ req' = [req EXCEPT ![r] =
             Return(q, FetchModelBody(q, [parts |-> q.parts_meta, info |-> q.info]))]
        /\ UNCHANGED <<fs, dirs, written>>

----------------------------------------------------------------------------
(* POST /api/model: receive_attributes and fetch_solidworks_info_and_file *)

\* os.path.splitext(name)[1]: from the last dot of the last component on,
\* unless only dots come before it
Splitext1(name) ==
    LET comps == Split(name, "/")
        base == comps[Len(comps)]
        dots == {k \in 1..Len(base) :
                    /\ SubSeq(base, k, k) = "."
                    /\ \E j \in 1..(k - 1) : SubSeq(base, j, j) # "."}
    IN  IF dots = {} THEN ""
        ELSE LET k == CHOOSE k \in dots : \A j \in dots : j <= k
             IN  SubSeq(base, k, Len(base))

\* tempfile.NamedTemporaryFile(delete=False, suffix=...).name: a fresh name in
\* the system's temporary directory
TempName(r, suffix) == <<"sys_tmp", "tmp" \o ReqId(r) \o suffix>>

\* the condition under which fetch_solidworks_info_and_file reads a part as JSON
IsJsonPart(ctype, filename) ==
    \/ ctype = "application/json"
    \/ (filename # None /\ EndsWith(Lower(filename), ".json"))

\* raise HTTPException(502, f"Error calling SOLIDWORKS API: {ex}")
SolidworksError(q, ex) == Raise(q, 502, <<"Error calling SOLIDWORKS API: ", ex>>)

\* receive_attributes up to the call of the client: the upload is copied to a
\* temporary file
ReceiveAttributesAccept(r, upload_name) ==
    LET q == req[r]
        tmp_name == TempName(r, Splitext1(upload_name))
    IN  /\ q.pc = "idle"
        /\ fs' = WriteFile(fs, tmp_name, UploadBytes)
        /\ written' = [written EXCEPT ![r] = @ \cup {tmp_name}]
        /\ req' = [req EXCEPT ![r] =
             [q EXCEPT !.endpoint = "/api/model", !.upload_name = upload_name,
                       !.tmp_name = tmp_name, !.pc = "forwarding"]]
        /\ UNCHANGED dirs

\* fetch_solidworks_info_and_file from the POST to the upstream up to the loop
\* over the parts; every way out of receive_attributes unlinks the temporary file
FetchSolidworksCall(r, outcome) ==
    LET q == [req[r] EXCEPT !.resp = outcome]
    IN  /\ q.pc = "forwarding"
        /\ q.endpoint = "/api/model"
        /\ UNCHANGED written
        /\ IF outcome.kind = "transport_error"
           THEN /\ req' = [req EXCEPT ![r] = SolidworksError(q, "ConnectError")]
                /\ fs' = Unlink(fs, q.tmp_name)
                /\ UNCHANGED dirs
           ELSE IF ~(outcome.status >= 200 /\ outcome.status <= 299)
           THEN \* raise_for_status: the message names the status, not the body
                /\ req' = [req EXCEPT ![r] =
                     SolidworksError(q, "HTTPStatusError " \o Str(outcome.status))]
                /\ fs' = Unlink(fs, q.tmp_name)
                /\ UNCHANGED dirs
           ELSE IF ~StartsWith(Lower(outcome.content_type), "multipart/")
           THEN /\ IF Utf8Ok(outcome.text) /\ JsonParses(outcome.text)
                   THEN req' = [req EXCEPT ![r] =
                          Return(q, [info |-> JsonLoads(outcome.text),
                                     exported_file |-> None])]
                   ELSE req' = [req EXCEPT ![r] =
                          SolidworksError(q, "Unexpected non-multipart response and not JSON")]
                /\ fs' = Unlink(fs, q.tmp_name)
                /\ UNCHANGED dirs
           ELSE /\ req' = [req EXCEPT ![r] =
                     [q EXCEPT !.pc = "parsing", !.parts = outcome.parts, !.i = 1,
                               !.info = EmptyDict, !.saved_file_path = <<>>,
                               !.dir = project_tmp_dir]]
                /\ dirs' = dirs \cup Ancestors(project_tmp_dir)
                /\ UNCHANGED fs

\* one iteration of the loop over msg.iter_parts()
FetchSolidworksPart(r) ==
    LET q == req[r]
        part == q.parts[q.i]
        ctype == GetContentType(part)
        filename == GetFilename(part)
        fname == IF filename # None THEN filename ELSE "output.stl"
        path == Join(project_tmp_dir, fname)
    IN  /\ q.pc = "parsing"
        /\ q.endpoint = "/api/model"
        /\ q.i <= Len(q.parts)
        /\ UNCHANGED dirs
        /\ IF IsJsonPart(ctype, filename)
           THEN IF InfoDecodes(part.content)
                THEN /\ req' = [req EXCEPT ![r] =
                          [q EXCEPT !.info = JsonLoads(part.content),
                                    !.taken = Append(@, [tag |-> "Info", path |-> <<>>]),
                                    !.i = @ + 1]]
                     /\ UNCHANGED <<fs, written>>
                ELSE \* json.loads raises: the whole call fails
                     /\ req' = [req EXCEPT ![r] = SolidworksError(q, "JSONDecodeError")]
                     /\ fs' = Unlink(fs, q.tmp_name)
                     /\ UNCHANGED written
           ELSE IF CanWrite(dirs, path)
                THEN /\ fs' = WriteFile(fs, path, part.content)
                     /\ written' = [written EXCEPT ![r] = @ \cup {path}]
                     /\ req' = [req EXCEPT ![r] =
                          [q EXCEPT !.saved_file_path = path,
                                    !.taken = Append(@, [tag |-> "Artifact", path |-> path]),
                                    !.i = @ + 1]]
                ELSE /\ req' = [req EXCEPT ![r] =
                          SolidworksError([q EXCEPT !.saved_file_path = path], "OSError")]
                     /\ fs' = Unlink(fs, q.tmp_name)
                     /\ UNCHANGED written

\* the loop is over: receive_attributes answers and unlinks the temporary file
ReceiveAttributesReturn(r) ==
    LET q == req[r]
    IN  /\ q.pc = "parsing"
        /\ q.endpoint = "/api/model"
        /\ q.i > Len(q.parts)
        /\ req' = [req EXCEPT ![r] =
             Return(q, [info |-> q.info,
                        exported_file |-> IF q.saved_file_path # <<>>
                                          THEN Basename(q.saved_file_path)
                                          ELSE None])]
        /\ fs' = Unlink(fs, q.tmp_name)
        /\ UNCHANGED <<dirs, written>>

----------------------------------------------------------------------------
(* Specifications *)

\* one request, the upstream answering with any of the model's parts
Next ==
    \/ \E name \in UploadNames : FetchModelAccept(1, name)
    \/ \E outcome \in Outcomes(AllParts) : ForwardAndParseCall(1, outcome)
    \/ ForwardAndParsePart(1)
    \/ FetchModelReturn(1)
    \/ \E name \in UploadNames : ReceiveAttributesAccept(1, name)
    \/ \E outcome \in Outcomes(AllParts) : FetchSolidworksCall(1, outcome)
    \/ FetchSolidworksPart(1)
    \/ ReceiveAttributesReturn(1)

Spec == Init /\ [][Next]_vars

\* NumReqs requests in flight together, interleaved at every file operation
NextConc ==
    \E r \in Requests :
        \/ \E name \in ConcUploadNames : FetchModelAccept(r, name)
        \/ \E outcome \in Outcomes(ConcParts) : ForwardAndParseCall(r, outcome)
        \/ ForwardAndParsePart(r)
        \/ FetchModelReturn(r)
        \/ \E name \in ConcUploadNames : ReceiveAttributesAccept(r, name)
        \/ \E outcome \in Outcomes(ConcParts) : FetchSolidworksCall(r, outcome)
        \/ FetchSolidworksPart(r)
        \/ ReceiveAttributesReturn(r)

SpecConc == Init /\ [][NextConc]_vars

----------------------------------------------------------------------------
(* Properties *)

Done(r) == req[r].pc = "done"
Answered(r) == Done(r) /\ req[r].status_code = 200
IsMultipartAnswer(q) ==
    q.resp.kind = "response" /\ q.parts = q.resp.parts /\ q.parts # <<>>
\* the request ended on a failed file write
WriteFailed(q) == q.pc = "done" /\ q.detail \in {<<"OSError">>,
                      <<"Error calling SOLIDWORKS API: ", "OSError">>}

\* the classification rule as the design states it
ClaimedInfo(part) ==
    \/ HeaderContentType(part) = "application/json"
    \/ LET fn == DispositionParam(part.disposition, "filename")
       IN  fn # None /\ EndsWith(Lower(fn), ".json")
    \/ DispositionParam(part.disposition, "name") = "info"

\* C1: every part handled so far was treated as Info exactly when its
\* content-type is application/json, or its filename ends in .json
\* (lowercased), or its disposition name is info; otherwise as Artifact
C1_ClassifiedByRule ==
    \A r \in Requests :
        \A k \in 1..Len(req[r].taken) :
            (req[r].taken[k].tag = "Info") <=> ClaimedInfo(req[r].parts[k])

\* C2: a /fetch-model request whose upstream answered with a status outside
\* 200..299 ends with 502, the detail holding the upstream body, and no part
\* was handled
C2_Non2xxGives502 ==
    \A r \in Requests :
        LET q == req[r]
        IN  (Done(r) /\ q.endpoint = "/fetch-model" /\ q.resp.kind = "response"
             /\ ~(q.resp.status >= 200 /\ q.resp.status <= 299))
            => /\ q.status_code = 502
               /\ \E k \in 1..Len(q.detail) : q.detail[k] = q.resp.text
               /\ q.taken = <<>>
               /\ q.parts_meta = <<>>

\* C3: a /fetch-model request whose call to the upstream failed at the
\* network level ends with 502
C3_TransportErrorGives502 ==
    \A r \in Requests :
        (Done(r) /\ req[r].endpoint = "/fetch-model"
         /\ req[r].resp.kind = "transport_error")
        => req[r].status_code = 502

\* the answer is a successful application/json answer with a JSON body
JsonAnswer(q) ==
    /\ q.resp.kind = "response"
    /\ q.resp.status >= 200 /\ q.resp.status <= 299
    /\ q.resp.content_type = "application/json"
    /\ Utf8Ok(q.resp.text) /\ JsonParses(q.resp.text)

C5_MalformedInfoGivesNull ==
    \A r \in Requests :
        LET q == req[r]
        IN  (Done(r) /\ q.endpoint = "/fetch-model" /\ IsMultipartAnswer(q)
             /\ ~WriteFailed(q)
             /\ \E k \in 1..Len(q.parts) :
                    ClaimedInfo(q.parts[k]) /\ ~InfoDecodes(q.parts[k].content))
            => /\ q.status_code = 200
               /\ Len(q.body.parts) = Len(q.parts)
               /\ q.body.info = Null

\* C6: every artifact part is written inside the request's workspace, and
\* under its file name with / and \ replaced by _ when it has one
C6_ArtifactsStayInWorkspace ==
    \A r \in Requests :
        LET q == req[r]
        IN  \A k \in 1..Len(q.taken) :
                q.taken[k].tag = "Artifact"
                => /\ Inside(q.taken[k].path, q.dir)
                   /\ LET fn == DispositionParam(q.parts[k].disposition, "filename")
                      IN  (Contains(fn, "/") \/ Contains(fn, "\\"))
                          => q.taken[k].path =
                               Append(q.dir, Replace(Replace(fn, "/", "_"), "\\", "_"))

\* C7: no path is written for two different requests
C7_DisjointWrites ==
    \A r1 \in Requests : \A r2 \in Requests :
        r1 # r2 => written[r1] \cap written[r2] = {}

\* C8: when /fetch-model answers with an info that is not null, info.json in
\* the request folder parses to that info
C8_InfoJsonRoundTrips ==
    \A r \in Requests :
        LET q == req[r]
            info_path == Join(q.dir, "info.json")
        IN  (Answered(r) /\ q.endpoint = "/fetch-model" /\ q.body.info # Null)
            => /\ info_path \in DOMAIN fs
               /\ InfoDecodes(fs[info_path])
               /\ JsonLoads(fs[info_path]) = q.body.info

\* the index of the last part of ps the rule classifies as Info
LastClaimedInfo(ps) ==
    CHOOSE k \in 1..Len(ps) :
        /\ ClaimedInfo(ps[k])
        /\ \A j \in (k + 1)..Len(ps) : ~ClaimedInfo(ps[j])

\* C9: an answer with several Info parts is not rejected, and the info
\* returned is the value of the last of them (a failed file write aside)
C9_LatestInfoWins ==
    \A r \in Requests :
        LET q == req[r]
        IN  (Done(r) /\ IsMultipartAnswer(q) /\ ~WriteFailed(q)
             /\ Cardinality({k \in 1..Len(q.parts) : ClaimedInfo(q.parts[k])}) >= 2)
            => /\ q.status_code = 200
               /\ InfoDecodes(q.parts[LastClaimedInfo(q.parts)].content)
                  => q.body.info = JsonLoads(q.parts[LastClaimedInfo(q.parts)].content)

\* what the handling of part k of request q wrote to its path
DataWritten(q, k) ==
    IF q.taken[k].tag = "Info"
    THEN JsonDumpsIndent2(JsonLoads(q.parts[k].content))
    ELSE q.parts[k].content

\* C10: the manifest /fetch-model returns has one entry per part of the
\* answer, in the answer's order; artifact parts that resolve to one stored
\* file name share one path, and that file holds what the last of them wrote
C10_ManifestPerPart ==
    \A r \in Requests :
        LET q == req[r]
            m == q.body.parts
        IN  (Answered(r) /\ q.endpoint = "/fetch-model" /\ IsMultipartAnswer(q))
            => /\ Len(m) = Len(q.parts)
               /\ \A k \in 1..Len(m) :
                    /\ m[k].name = DispositionParam(q.parts[k].disposition, "name")
                    /\ m[k].path = Append(q.dir, m[k].filename)
                    /\ m[k].path \in DOMAIN fs
                    /\ m[k].size = Len(DataWritten(q, k))
               /\ \A j \in 1..Len(m) : \A k \in 1..Len(m) :
                    (j < k /\ m[j].filename = m[k].filename
                     /\ \A l \in (k + 1)..Len(m) : m[l].filename # m[k].filename)
                    => /\ m[j].path = m[k].path
                       /\ fs[m[k].path] = DataWritten(q, k)

C10_Witness ==
    /\ Answered(1) /\ req[1].endpoint = "/fetch-model"
    /\ req[1].parts = <<P_result1, P_result2>>
    /\ Len(req[1].body.parts) = 2
    /\ req[1].body.parts[1].filename = "result.bin"
    /\ req[1].body.parts[2].filename = "result.bin"
    /\ req[1].body.parts[1].path = req[1].body.parts[2].path
    /\ fs[req[1].body.parts[2].path] = P_result2.content

====
